---- MODULE Spec2Model ----
(***************************************************************************)
(* Model of request_handler/src/http_handler/handler.py: the retrying HTTP *)
(* request handlers (SyncHttpRequestHandler, AsyncHttpRequestHandler),     *)
(* their batch operation parallel_requests and their close().              *)
(*                                                                         *)
(* One handler instance is modelled.  Its constructor arguments are chosen *)
(* in Init.  A "slot" is one activation of _request / _async_request: the  *)
(* direct calls get/post/put/delete use slot 1, the items of a batch use   *)
(* slot i for item i.  trace and sleeps are history variables: trace[s] is *)
(* the sequence of transport replies slot s received (one per transport    *)
(* send), sleeps[s] the number of backoff sleeps it performed.             *)
(*                                                                         *)
(* Two further components of the repository are modelled next to it, each  *)
(* under a specification of its own: the lock-based Singleton metaclass    *)
(* (singleton/src/singleton_with_lock.py, SpecSingleton) and the buffered  *)
(* stream wrappers (llm_factory/src/patcher/buffered_streaming.py,         *)
(* SpecStream).                                                            *)
(***************************************************************************)
EXTENDS Naturals, Sequences, FiniteSets

\* ---------------------------------------------------------------- bounds
MaxRetries == 2
MaxItems == 2
MaxWorkers == 2

Slots == 1..MaxItems
Closers == {"c1", "c2"}

\* ------------------------------------------------------ transport replies
Resp(st, ok) == [type |-> "response", status |-> st, json_ok |-> ok]
RequestError == [type |-> "RequestError", status |-> 0, json_ok |-> FALSE]
OtherException == [type |-> "Exception", status |-> 0, json_ok |-> FALSE]

\* what one client.request(...) can come back with, when the request is sent
Outcomes ==
    { Resp(200, TRUE), Resp(200, FALSE), Resp(404, TRUE),
      Resp(503, TRUE), Resp(503, FALSE), RequestError, OtherException }

\* the replies of the endpoints used by batches
BatchOutcomes == { Resp(200, TRUE), Resp(404, TRUE), Resp(503, TRUE) }

\* the default of retryable_status_codes
RetryableDefault == {429, 500, 502, 503, 504}

\* -------------------------------------------------------- values, errors
NoError == [exc |-> "None", status |-> 0, attempt |-> 0]
Err(e, st, n) == [exc |-> e, status |-> st, attempt |-> n]

NoResult ==
    [kind |-> "none", exc |-> "None", status |-> 0, attempt |-> 0,
     item |-> 0, value |-> "none"]
Returned(s, o, n, v) ==
    [kind |-> "return", exc |-> "None", status |-> o.status, attempt |-> n,
     item |-> s, value |-> v]
Raised(s, e) ==
    [kind |-> "raise", exc |-> e.exc, status |-> e.status,
     attempt |-> e.attempt, item |-> s, value |-> "none"]

\* a request item / the arguments of one call: which keys the mapping has
Item(m, e, j, x) ==
    [has_method |-> m, has_endpoint |-> e, has_is_json |-> j, has_extra |-> x]
WellFormed == Item(TRUE, TRUE, FALSE, FALSE)
\* the items batches are called with: complete, without 'method', without
\* 'endpoint', and with a per-item 'is_json' key
ItemShapes ==
    { WellFormed, Item(FALSE, TRUE, FALSE, FALSE), Item(TRUE, FALSE, FALSE, FALSE),
      Item(TRUE, TRUE, TRUE, FALSE) }

VARIABLES
    kind,                   \* "sync" or "async": which handler class
    ctor_logger,            \* whether the constructor was given a logger
    max_retries,            \* self.max_retries
    logger,                 \* self.logger: "None" or "logger"
    retryable_status_codes, \* self.retryable_status_codes
    client,                 \* self.client: "client" or "None"
    is_closed,              \* client.is_closed of the one client object
    releases,               \* number of client.close() / aclose() calls
    cpc,                    \* per closer: position inside close()
    c_after,                \* per closer: self.client was None when it began
    c_released,             \* per closer: this call invoked client.close()
    c_failed,               \* per closer: the release of this call raised
    pc,                     \* per slot: position inside _request
    args,                   \* per slot: the call's arguments
    is_json,                \* per slot: the is_json argument
    sync_client,            \* per slot: the local sync_client / client
    after_close,            \* per slot: self.client was None when it began
    retry_count,            \* per slot: the local retry_count
    last_error,             \* per slot: the local last_error
    trace,                  \* per slot: replies of the transport sends made
    sleeps,                 \* per slot: backoff sleeps performed
    outcome,                \* per slot: what the activation returned/raised
    logs,                   \* per slot: records it put on the injected logger
    bpc,                    \* position inside parallel_requests
    requests,               \* the requests argument of parallel_requests
    max_workers,            \* the max_workers argument (sync)
    results,                \* the results list of parallel_requests
    collected,              \* futures already taken from as_completed
    wpc,                    \* position of the with / async with block
    w_path,                 \* how the block was left: "normal", "exception"
    min_retry_delay,        \* self.min_retry_delay, in tenths of a second
    max_retry_delay,        \* self.max_retry_delay, in tenths of a second
    computed,               \* the last delay _calculate_retry_delay computed
    decision,               \* the last call of _calculate_retry_delay: its
                            \* arguments and how it ended
    s_instances,            \* Singleton._instances: class -> instance
    s_lock,                 \* Singleton._lock: the thread holding it, or "free"
    s_stack,                \* per thread: its active Singleton.__call__ frames
    s_calls,                \* per thread: constructor calls it has made
    s_inits,                \* per class: runs of __init__ started
    s_stores,               \* per class: assignments to _instances[cls]
    s_returned,             \* per class: the instances constructor calls returned
    buffer_size,            \* self.buffer_size of the patcher
    source,                 \* the items the wrapped stream yields
    consumed,               \* how many of them the wrapper has taken
    buffer,                 \* the wrapper's local buffer
    emitted,                \* the merged messages the wrapper has yielded
    wrapper_pc              \* position of the wrapper generator

handlerVars ==
    <<kind, ctor_logger, max_retries, logger, retryable_status_codes>>
clientVars == <<client, is_closed, releases>>
closeVars == <<cpc, c_after, c_released, c_failed>>
slotVars ==
    <<pc, args, is_json, sync_client, after_close, retry_count, last_error,
      trace, sleeps, outcome, logs>>
batchVars == <<bpc, requests, max_workers, results, collected>>
scopeVars == <<wpc, w_path>>
delayVars == <<min_retry_delay, max_retry_delay, computed, decision>>
singletonVars ==
    <<s_instances, s_lock, s_stack, s_calls, s_inits, s_stores, s_returned>>
streamVars == <<buffer_size, source, consumed, buffer, emitted, wrapper_pc>>
vars ==
    <<handlerVars, clientVars, closeVars, slotVars, batchVars, scopeVars,
      delayVars, singletonVars, streamVars>>

\* ------------------------------------------------------------ construction
NoneArg == [tag |-> "None", codes |-> {}]
LoggerObj == [tag |-> "Logger", codes |-> {}]
CodeSet(S) == [tag |-> "set", codes |-> S]

\* Python truth value of an argument: None and the empty set are falsy
Truthy(a) == a.tag = "Logger" \/ (a.tag = "set" /\ a.codes # {})

\* BaseHttpRequestHandler.__init__(..., retryable_status_codes, logger)
BaseInit(retryable_arg, logger_arg) ==
    [logger |-> logger_arg,
     retryable_status_codes |->
        IF Truthy(retryable_arg) THEN retryable_arg ELSE CodeSet(RetryableDefault)]

\* Sync/AsyncHttpRequestHandler.__init__: super().__init__(base_url,
\* max_retries, min_retry_delay, max_retry_delay, timeout, logger), all
\* positional, so the sixth positional parameter of the base class
\* (retryable_status_codes) receives the logger and logger keeps its default
HandlerInit(logger_arg) == BaseInit(logger_arg, NoneArg)

\* the defaults of min_retry_delay (1.0 s) and max_retry_delay (5.0 s), in
\* tenths of a second
DefaultMinRetryDelay == 10
DefaultMaxRetryDelay == 50

NoDelay == [done |-> FALSE, retry_count |-> 0, jitter |-> 0, delay |-> 0]
NoDecision ==
    [done |-> FALSE, retry_count |-> 0, error |-> NoError, result |-> "None"]

\* the classes whose metaclass is Singleton, and the threads constructing them
SClasses == {"A", "B"}
SThreads == {"t1", "t2"}
NoInstance == [cls |-> "none", arg |-> 0, n |-> 0]

\* Singleton._instances = {}, Singleton._lock = threading.Lock(): nothing
\* constructed, nobody in a constructor call
SingletonInit ==
    /\ s_instances = [c \in SClasses |-> NoInstance]
    /\ s_lock = "free"
    /\ s_stack = [t \in SThreads |-> <<>>]
    /\ s_calls = [t \in SThreads |-> 0]
    /\ s_inits = [c \in SClasses |-> 0]
    /\ s_stores = [c \in SClasses |-> 0]
    /\ s_returned = [c \in SClasses |-> {}]

\* BufferedStreamingPatcher(): buffer_size defaults to 5; no wrapper running
DefaultBufferSize == 5

StreamInit ==
    /\ buffer_size = DefaultBufferSize
    /\ source = <<>>
    /\ consumed = 0
    /\ buffer = <<>>
    /\ emitted = <<>>
    /\ wrapper_pc = "idle"

InitState ==
    /\ kind \in {"sync", "async"}
    /\ ctor_logger \in BOOLEAN
    /\ max_retries \in 0..MaxRetries
    /\ logger = HandlerInit(IF ctor_logger THEN LoggerObj ELSE NoneArg).logger
    /\ retryable_status_codes =
         HandlerInit(IF ctor_logger THEN LoggerObj ELSE NoneArg).retryable_status_codes
    /\ client = "client"
    /\ is_closed = FALSE
    /\ releases = 0
    /\ cpc = [c \in Closers |-> "idle"]
    /\ c_after = [c \in Closers |-> FALSE]
    /\ c_released = [c \in Closers |-> FALSE]
    /\ c_failed = [c \in Closers |-> FALSE]
    /\ pc = [s \in Slots |-> "idle"]
    /\ args = [s \in Slots |-> WellFormed]
    /\ is_json = [s \in Slots |-> TRUE]
    /\ sync_client = [s \in Slots |-> "unset"]
    /\ after_close = [s \in Slots |-> FALSE]
    /\ retry_count = [s \in Slots |-> 0]
    /\ last_error = [s \in Slots |-> NoError]
    /\ trace = [s \in Slots |-> <<>>]
    /\ sleeps = [s \in Slots |-> 0]
    /\ outcome = [s \in Slots |-> NoResult]
    /\ logs = [s \in Slots |-> 0]
    /\ bpc = "none"
    /\ requests = <<>>
    /\ max_workers = 0
    /\ results = <<>>
    /\ collected = {}
    /\ wpc = "none"
    /\ w_path = "none"
    /\ computed = NoDelay
    /\ decision = NoDecision
    /\ SingletonInit
    /\ StreamInit

\* a handler constructed with the default delays
Init ==
    /\ InitState
    /\ min_retry_delay = DefaultMinRetryDelay
    /\ max_retry_delay = DefaultMaxRetryDelay

\* ------------------------------------------------------- a single request
\* mutant of PrepareRaises: a missing endpoint is taken as the empty path
PrepareNeverRaises(a) == FALSE

\* _prepare_request_kwargs: endpoint.lstrip('/') raises AttributeError when
\* endpoint is None; nothing else in it can fail
PrepareRaises(a) == ~a.has_endpoint

\* mutant of CapturedClient: a cleared client is silently replaced by a
\* usable one
CapturedClientReopened == "client"

\* mutant of CapturedClient: a request that finds no client creates one
CapturedClientLazy == IF client = "None" THEN "client2" ELSE client

\* sync_client = self.client
CapturedClient == client

\* the first four statements of _request / _async_request, for slot s with
\* arguments a and is_json j
Prologue(s, a, j) ==
    /\ args' = [args EXCEPT ![s] = a]
    /\ is_json' = [is_json EXCEPT ![s] = j]
    /\ retry_count' = [retry_count EXCEPT ![s] = 0]
    /\ last_error' = [last_error EXCEPT ![s] = NoError]
    /\ trace' = [trace EXCEPT ![s] = <<>>]
    /\ sleeps' = [sleeps EXCEPT ![s] = 0]
    /\ logs' = [logs EXCEPT ![s] = 0]
    /\ after_close' = [after_close EXCEPT ![s] = (client = "None")]
    /\ IF PrepareRaises(a)
         THEN /\ pc' = [pc EXCEPT ![s] = "done"]
              /\ sync_client' = [sync_client EXCEPT ![s] = "unset"]
              /\ outcome' = [outcome EXCEPT ![s] = Raised(s, Err("AttributeError", 0, 0))]
         ELSE /\ pc' = [pc EXCEPT ![s] = "loop"]
              /\ sync_client' = [sync_client EXCEPT ![s] = CapturedClient]
              /\ outcome' = [outcome EXCEPT ![s] = NoResult]

\* mutant of HandleResponse: a body that is not JSON is handed back as if it
\* had been decoded
HandleResponseNoDecodeError(o, j) ==
    IF o.status >= 400 THEN [exc |-> "HTTPStatusError", value |-> "none"]
    ELSE IF ~j THEN [exc |-> "None", value |-> "response"]
    ELSE [exc |-> "None", value |-> "json"]

\* response.raise_for_status() and the JSON decoding of _handle_response:
\* the exception it raises ("None" when it returns) and the value returned
HandleResponse(o, j) ==
    IF o.status >= 400 THEN [exc |-> "HTTPStatusError", value |-> "none"]
    ELSE IF ~j THEN [exc |-> "None", value |-> "response"]
    ELSE IF o.json_ok THEN [exc |-> "None", value |-> "json"]
    ELSE [exc |-> "ValueError", value |-> "none"]

\* mutant of CalculateRetryDelay: the retry count is not looked at
CalculateRetryDelayUnbounded(rc, e) ==
    IF e.exc = "HTTPStatusError" /\ retryable_status_codes.tag # "set"
      THEN "TypeError"
    ELSE LET should_retry ==
                \/ e.exc = "HTTPStatusError" /\ e.status \in retryable_status_codes.codes
                \/ e.exc = "RequestError"
         IN IF should_retry THEN "delay" ELSE "None"

\* mutant of CalculateRetryDelay: retry_count <= self.max_retries
CalculateRetryDelayOffByOne(rc, e) ==
    IF e.exc = "HTTPStatusError" /\ retryable_status_codes.tag # "set"
      THEN "TypeError"
    ELSE LET should_retry ==
                \/ e.exc = "HTTPStatusError" /\ e.status \in retryable_status_codes.codes
                \/ e.exc = "RequestError"
         IN IF should_retry /\ rc <= max_retries THEN "delay" ELSE "None"

\* _calculate_retry_delay(retry_count, error): "delay" when it returns a
\* delay, "None" when it returns None, "TypeError" when the membership test
\* status_code in self.retryable_status_codes is made on an object that is
\* no container
CalculateRetryDelay(rc, e) ==
    IF e.exc = "HTTPStatusError" /\ retryable_status_codes.tag # "set"
      THEN "TypeError"
    ELSE LET should_retry ==
                \/ e.exc = "HTTPStatusError" /\ e.status \in retryable_status_codes.codes
                \/ e.exc = "RequestError"
         IN IF should_retry /\ rc < max_retries THEN "delay" ELSE "None"

\* last_error = e
LastError(prev, e) == e

\* mutant of OwnRetryCount: one counter for all requests of the handler
SharedRetryCount(s) ==
    CHOOSE n \in 0..(MaxRetries + 2) :
        /\ \E u \in Slots : retry_count[u] = n
        /\ \A u \in Slots : retry_count[u] <= n

\* retry_count is a local variable of the activation (retry_count = 0 in
\* its prologue): the count the retry decision is taken with is its own
OwnRetryCount(s) == retry_count[s]

\* what client.request(**request_kwargs) raises before anything is sent:
\* None has no attribute request; an unknown keyword is a TypeError of the
\* call; httpx's build_request fails on method None; a closed client refuses
\* to send (RuntimeError).  "None" when the request goes to the transport.
SendRefused(s) ==
    IF sync_client[s] = "None" THEN "AttributeError"
    ELSE IF args[s].has_extra THEN "TypeError"
    ELSE IF ~args[s].has_method THEN "AttributeError"
    ELSE IF is_closed THEN "RuntimeError"
    ELSE "None"

\* _log(level, message): the number of records that n calls of it put on
\* self.logger; nothing is emitted when self.logger is None
LogRecords(n) == IF Truthy(logger) THEN n ELSE 0

\* the _log calls made while the error of one attempt is handled: in
\* _handle_response (HTTP error, JSON decoding error), in the except clauses
\* of the loop and in _calculate_retry_delay (every branch logs once; none
\* is reached when the membership test raises TypeError)
LogCalls(exc, d) ==
    IF exc = "None" THEN 0
    ELSE IF exc = "ValueError" THEN 2
    ELSE IF exc = "HTTPStatusError" THEN (IF d = "TypeError" THEN 1 ELSE 2)
    ELSE 1

\* mutant of AfterDelay: the next attempt starts at once
AfterDelayNoSleep == "loop"

\* if delay is not None: time.sleep(delay) / await asyncio.sleep(delay)
\* comes before the next iteration
AfterDelay == "sleep"

Finish(s, r) ==
    /\ pc' = [pc EXCEPT ![s] = "done"]
    /\ outcome' = [outcome EXCEPT ![s] = r]

\* one iteration of the while loop of _request / _async_request, up to the
\* return, the raise or the start of the backoff sleep; o is the transport's
\* reply if the request is sent
Attempt(s, o) ==
    /\ pc[s] = "loop"
    /\ UNCHANGED <<handlerVars, singletonVars, streamVars, scopeVars, delayVars, clientVars, closeVars, batchVars>>
    /\ UNCHANGED <<args, is_json, sync_client, after_close, retry_count, sleeps>>
    /\ IF retry_count[s] > max_retries
         THEN \* the safeguard raise after the loop
              /\ Finish(s, Raised(s, Err("RequestError", 0, Len(trace[s]) + 1)))
              /\ UNCHANGED <<last_error, trace, logs>>
       ELSE IF SendRefused(s) # "None"
         THEN \* except Exception: last_error = e; raise
              LET e == Err(SendRefused(s), 0, Len(trace[s]) + 1) IN
              /\ last_error' = [last_error EXCEPT ![s] = LastError(@, e)]
              /\ logs' = [logs EXCEPT ![s] = @ + LogRecords(LogCalls(e.exc, "None"))]
              /\ Finish(s, Raised(s, e))
              /\ UNCHANGED trace
       ELSE LET n == Len(trace[s]) + 1
                h == IF o.type = "response" THEN HandleResponse(o, is_json[s])
                     ELSE [exc |-> o.type, value |-> "none"]
                e == Err(h.exc, o.status, n)
                le == LastError(last_error[s], e)
                dl == CalculateRetryDelay(OwnRetryCount(s), e)
            IN /\ trace' = [trace EXCEPT ![s] = Append(@, o)]
               /\ logs' = [logs EXCEPT ![s] = @ + LogRecords(LogCalls(h.exc, dl))]
               /\ IF h.exc = "None"
                    THEN /\ Finish(s, Returned(s, o, n, h.value))
                         /\ UNCHANGED last_error
                  ELSE /\ last_error' = [last_error EXCEPT ![s] = le]
                       /\ IF h.exc \in {"ValueError", "Exception"}
                            THEN Finish(s, Raised(s, e))
                          ELSE LET d == CalculateRetryDelay(OwnRetryCount(s), e) IN
                               IF d = "TypeError"
                                 THEN Finish(s, Raised(s, Err("TypeError", o.status, n)))
                               ELSE IF d = "delay"
                                 THEN /\ pc' = [pc EXCEPT ![s] = AfterDelay]
                                      /\ UNCHANGED outcome
                               ELSE Finish(s, Raised(s, le))

\* time.sleep(delay) / await asyncio.sleep(delay); retry_count += 1
Sleep(s) ==
    /\ pc[s] = "sleep"
    /\ pc' = [pc EXCEPT ![s] = "loop"]
    /\ retry_count' = [retry_count EXCEPT ![s] = @ + 1]
    /\ sleeps' = [sleeps EXCEPT ![s] = @ + 1]
    /\ UNCHANGED <<handlerVars, singletonVars, streamVars, scopeVars, delayVars, clientVars, closeVars, batchVars>>
    /\ UNCHANGED <<args, is_json, sync_client, after_close, last_error, trace,
                   outcome, logs>>

\* get / post / put / delete: _request(METHOD, endpoint, ..., **kwargs) with
\* the method fixed by the convenience method; is_json and extra keyword
\* arguments come through kwargs
Call(j, x) ==
    /\ bpc = "none"
    /\ pc[1] \in {"idle", "done"}
    /\ Prologue(1, Item(TRUE, TRUE, FALSE, x), j)
    /\ UNCHANGED <<handlerVars, singletonVars, streamVars, scopeVars, delayVars, clientVars, closeVars, batchVars>>

\* ------------------------------------------------------------------ close
\* the guard of close(): self.client and not self.client.is_closed
CloseGuard == client # "None" /\ ~is_closed

\* mutant of AfterReleaseError: the exception of the release leaves close()
AfterReleaseErrorPropagates == "raised"

\* mutant of AfterReleaseError: the except clause returns, and the statement
\* that clears the reference is skipped
AfterReleaseErrorSkipsClear == "returned"

\* where close() continues when client.close() / aclose() raised: the
\* except clause logs and falls through to self.client = None
AfterReleaseError == "clear"

\* self.client.close() / await self.client.aclose() inside the try of
\* close(): self.client is read again; the release may raise, and then
\* whether the client counts as closed is not determined by this code
DoRelease(c) ==
    IF client = "None"
      THEN \* AttributeError on None, caught by except Exception
           /\ cpc' = [cpc EXCEPT ![c] = AfterReleaseError]
           /\ c_failed' = [c_failed EXCEPT ![c] = TRUE]
           /\ UNCHANGED <<clientVars, c_released>>
    ELSE /\ releases' = releases + 1
         /\ c_released' = [c_released EXCEPT ![c] = TRUE]
         /\ UNCHANGED client
         /\ \/ /\ is_closed' = TRUE
               /\ cpc' = [cpc EXCEPT ![c] = "clear"]
               /\ c_failed' = [c_failed EXCEPT ![c] = FALSE]
            \/ /\ is_closed' \in {is_closed, TRUE}
               /\ cpc' = [cpc EXCEPT ![c] = AfterReleaseError]
               /\ c_failed' = [c_failed EXCEPT ![c] = TRUE]

\* close() is entered and its guard evaluated.  In the async handler nothing
\* can run between the guard and the start of aclose() (no await between
\* them), so the release belongs to the same step.
CloseCheck(c) ==
    /\ cpc[c] \in {"idle", "returned"}
    /\ c_after' = [c_after EXCEPT ![c] = (client = "None")]
    /\ IF ~CloseGuard
         THEN /\ cpc' = [cpc EXCEPT ![c] = "clear"]
              /\ c_released' = [c_released EXCEPT ![c] = FALSE]
              /\ c_failed' = [c_failed EXCEPT ![c] = FALSE]
              /\ UNCHANGED clientVars
       ELSE IF kind = "async"
         THEN DoRelease(c)
       ELSE /\ cpc' = [cpc EXCEPT ![c] = "release"]
            /\ c_released' = [c_released EXCEPT ![c] = FALSE]
            /\ c_failed' = [c_failed EXCEPT ![c] = FALSE]
            /\ UNCHANGED clientVars
    /\ UNCHANGED <<handlerVars, singletonVars, streamVars, scopeVars, delayVars, slotVars, batchVars>>

\* sync close(), in a thread of its own: the release after the guard
CloseRelease(c) ==
    /\ cpc[c] = "release"
    /\ DoRelease(c)
    /\ UNCHANGED <<handlerVars, singletonVars, streamVars, scopeVars, delayVars, c_after, slotVars, batchVars>>

\* self.client = None, and close() returns
CloseClear(c) ==
    /\ cpc[c] = "clear"
    /\ client' = "None"
    /\ cpc' = [cpc EXCEPT ![c] = "returned"]
    /\ UNCHANGED <<handlerVars, singletonVars, streamVars, scopeVars, delayVars, is_closed, releases,
                   c_after, c_released, c_failed, slotVars, batchVars>>

\* ----------------------------------------------------------- specification
\* direct calls on one handler, with close() called from two threads/tasks
Next ==
    \/ \E j \in BOOLEAN, x \in BOOLEAN : Call(j, x)
    \/ \E o \in Outcomes : Attempt(1, o)
    \/ Sleep(1)
    \/ \E c \in Closers : CloseCheck(c)
    \/ \E c \in Closers : CloseRelease(c)
    \/ \E c \in Closers : CloseClear(c)

Spec == Init /\ [][Next]_vars

\* ------------------------------------------------------ parallel_requests
Indices == 1..Len(requests)

\* the keyword arguments built for item r collide with the explicit
\* is_json=is_json of the call (executor.submit(self._request, ...,
\* is_json=is_json, **{other keys}) / self._async_request(..., is_json=is_json,
\* **other_kwargs)): Python raises TypeError at the call, in the loop
SubmitRaises(r) == r.has_is_json

\* async: if not method or not endpoint -> tasks.append(_raise_value_error)
AsyncRejects(r) == ~r.has_method \/ ~r.has_endpoint

\* parallel_requests is called with the list items, is_json j and (sync)
\* max_workers w.  sync: results = [None] * len(requests), then
\* ThreadPoolExecutor(max_workers) raises ValueError for max_workers <= 0.
\* async: the whole task-building loop runs without an await; a TypeError
\* in it leaves the coroutines built so far unstarted.
ParallelRequests(items, j, w) ==
    /\ bpc = "none"
    /\ \A s \in Slots : pc[s] \in {"idle", "done"}
    /\ kind = "async" => w = 0
    /\ requests' = items
    /\ max_workers' = w
    /\ results' = [i \in 1..Len(items) |-> NoResult]
    /\ collected' = {}
    /\ args' = [s \in Slots |-> IF s <= Len(items) THEN items[s] ELSE WellFormed]
    /\ is_json' = [s \in Slots |-> j]
    /\ sync_client' = [s \in Slots |-> "unset"]
    /\ after_close' = [s \in Slots |-> FALSE]
    /\ retry_count' = [s \in Slots |-> 0]
    /\ last_error' = [s \in Slots |-> NoError]
    /\ trace' = [s \in Slots |-> <<>>]
    /\ sleeps' = [s \in Slots |-> 0]
    /\ outcome' = [s \in Slots |-> NoResult]
    /\ logs' = [s \in Slots |-> 0]
    /\ IF kind = "sync"
         THEN /\ pc' = [s \in Slots |-> "idle"]
              /\ bpc' = IF w <= 0 THEN "raised"
                        ELSE IF Len(items) = 0 THEN "collecting" ELSE "submitting"
       ELSE IF \E i \in 1..Len(items) : SubmitRaises(items[i])
         THEN /\ pc' = [s \in Slots |-> "idle"]
              /\ bpc' = "raised"
       ELSE /\ pc' = [s \in Slots |-> IF s <= Len(items) THEN "queued" ELSE "idle"]
            /\ bpc' = "gathering"
    /\ UNCHANGED <<handlerVars, singletonVars, streamVars, scopeVars, delayVars, clientVars, closeVars>>

\* sync: one iteration of for i, req in enumerate(requests): executor.submit
\* and futures_map[future] = i.  A TypeError leaves the with block, whose
\* exit waits for the futures submitted so far.
SyncSubmit ==
    /\ bpc = "submitting"
    /\ LET i == Cardinality({s \in Indices : pc[s] # "idle"}) + 1 IN
       IF SubmitRaises(requests[i])
         THEN /\ bpc' = "aborting"
              /\ UNCHANGED pc
       ELSE /\ pc' = [pc EXCEPT ![i] = "queued"]
            /\ bpc' = IF i = Len(requests) THEN "collecting" ELSE "submitting"
    /\ UNCHANGED <<handlerVars, singletonVars, streamVars, scopeVars, delayVars, clientVars, closeVars>>
    /\ UNCHANGED <<args, is_json, sync_client, after_close, retry_count,
                   last_error, trace, sleeps, outcome, logs>>
    /\ UNCHANGED <<requests, max_workers, results, collected>>

\* the slots whose _request is running in a worker thread
Running == {u \in Slots : pc[u] \in {"loop", "sleep"}}

\* mutant of WorkerFree: the pool starts a thread for every submitted task
WorkerAlwaysFree == TRUE

\* ThreadPoolExecutor(max_workers=max_workers): a queued task starts only
\* while fewer than max_workers tasks are running
WorkerFree == Cardinality(Running) < max_workers

\* the activation of item s starts: a pool thread takes the oldest queued
\* call while fewer than max_workers are running (sync); the event loop
\* starts a gathered task (async)
TaskStart(s) ==
    /\ pc[s] = "queued"
    /\ IF kind = "sync"
         THEN /\ WorkerFree
              /\ \A u \in Slots : pc[u] = "queued" => s <= u
       ELSE bpc = "gathering"
    /\ IF kind = "async" /\ AsyncRejects(args[s])
         THEN \* _raise_value_error(error_msg)
              /\ Finish(s, Raised(s, Err("ValueError", 0, 0)))
              /\ UNCHANGED <<args, is_json, sync_client, after_close, retry_count,
                             last_error, trace, sleeps, logs>>
       ELSE Prologue(s, args[s], is_json[s])
    /\ UNCHANGED <<handlerVars, singletonVars, streamVars, scopeVars, delayVars, clientVars, closeVars, batchVars>>

\* mutant of ResultIndex: results are stored in completion order
ResultIndexByCompletion(s) == Cardinality(collected) + 1

\* index = futures_map[future]
ResultIndex(s) == s

\* sync: for future in as_completed(futures_map): results[index] = its
\* result or its exception
Collect(s) ==
    /\ bpc = "collecting"
    /\ s \in Indices \ collected
    /\ pc[s] = "done"
    /\ results' = [results EXCEPT ![ResultIndex(s)] = outcome[s]]
    /\ collected' = collected \cup {s}
    /\ UNCHANGED <<handlerVars, singletonVars, streamVars, scopeVars, delayVars, clientVars, closeVars, slotVars>>
    /\ UNCHANGED <<bpc, requests, max_workers>>

\* sync: as_completed is exhausted, the executor shuts down, return results
SyncReturn ==
    /\ bpc = "collecting"
    /\ collected = Indices
    /\ bpc' = "returned"
    /\ UNCHANGED <<handlerVars, singletonVars, streamVars, scopeVars, delayVars, clientVars, closeVars, slotVars>>
    /\ UNCHANGED <<requests, max_workers, results, collected>>

\* sync: the exception of the submit loop leaves parallel_requests once the
\* executor has shut down (shutdown waits for the submitted calls)
SyncAbort ==
    /\ bpc = "aborting"
    /\ \A s \in Indices : pc[s] \in {"idle", "done"}
    /\ bpc' = "raised"
    /\ UNCHANGED <<handlerVars, singletonVars, streamVars, scopeVars, delayVars, clientVars, closeVars, slotVars>>
    /\ UNCHANGED <<requests, max_workers, results, collected>>

\* results = await asyncio.gather(*tasks, return_exceptions=True)
GatherResults == [i \in Indices |-> outcome[i]]

Gather ==
    /\ bpc = "gathering"
    /\ \A s \in Indices : pc[s] = "done"
    /\ results' = GatherResults
    /\ bpc' = "returned"
    /\ UNCHANGED <<handlerVars, singletonVars, streamVars, scopeVars, delayVars, clientVars, closeVars, slotVars>>
    /\ UNCHANGED <<requests, max_workers, collected>>

\* the lists parallel_requests is called with
ItemLists == UNION { [1..n -> ItemShapes] : n \in 0..MaxItems }

\* one caller: close() any number of times, then one batch, called with
\* the default is_json=True
NextBatch ==
    \/ \E items \in ItemLists, w \in {0, 1, MaxWorkers} :
          ParallelRequests(items, TRUE, w)
    \/ SyncSubmit
    \/ \E s \in Slots : TaskStart(s)
    \/ \E s \in Slots, o \in BatchOutcomes : Attempt(s, o)
    \/ \E s \in Slots : Sleep(s)
    \/ \E s \in Slots : Collect(s)
    \/ SyncReturn
    \/ SyncAbort
    \/ Gather
    \/ bpc = "none" /\ CloseCheck("c1")
    \/ bpc = "none" /\ CloseRelease("c1")
    \/ bpc = "none" /\ CloseClear("c1")

\* the retry budgets of the handlers batches are run on
BatchRetryBudgets == {0, 1}

InitBatch == Init /\ max_retries \in BatchRetryBudgets

SpecBatch == InitBatch /\ [][NextBatch]_vars

\* ------------------------------------------------------ the backoff delay
RECURSIVE Pow2(_)
Pow2(n) == IF n = 0 THEN 1 ELSE 2 * Pow2(n - 1)

Min(a, b) == IF a <= b THEN a ELSE b

\* base_delay = min(self.min_retry_delay * (2 ** retry_count),
\*                  self.max_retry_delay)
BaseDelay(rc) == Min(min_retry_delay * Pow2(rc), max_retry_delay)

\* the largest jitter random.uniform(0, base_delay * 0.3) can draw, in
\* tenths of a second
JitterMax(base) == (3 * base) \div 10

\* mutant of RetryDelay: the jitter is taken off the base
RetryDelayJitterBelow(rc, jit) == Min(BaseDelay(rc) - jit, max_retry_delay)

\* mutant of RetryDelay: the final cap is missing
RetryDelayUncapped(rc, jit) == BaseDelay(rc) + jit

\* delay = base_delay + jitter; delay = min(delay, self.max_retry_delay)
RetryDelay(rc, jit) == Min(BaseDelay(rc) + jit, max_retry_delay)

\* the errors _calculate_retry_delay is called with that it may retry
RetryableErrors == {Err("RequestError", 0, 1), Err("HTTPStatusError", 503, 1)}

\* _calculate_retry_delay(rc, e) on its branch that returns a delay, with
\* jit the value random.uniform returned
ComputeDelay(rc, e, jit) ==
    /\ CalculateRetryDelay(rc, e) = "delay"
    /\ jit \in 0..JitterMax(BaseDelay(rc))
    /\ computed' = [done |-> TRUE, retry_count |-> rc, jitter |-> jit,
                    delay |-> RetryDelay(rc, jit)]
    /\ UNCHANGED <<handlerVars, singletonVars, streamVars, scopeVars,
                   min_retry_delay, max_retry_delay, decision, clientVars,
                   closeVars, slotVars, batchVars>>

\* the errors the except clauses can hand to _calculate_retry_delay, and
\* other exception types
ErrorCases ==
    { Err("HTTPStatusError", st, 1) : st \in RetryableDefault \cup {400, 404} }
        \cup { Err(x, 0, 1) : x \in {"RequestError", "ValueError", "Exception"} }

\* one call _calculate_retry_delay(rc, e), up to its return or its raise;
\* it assigns nothing but locals
DecideRetry(rc, e) ==
    /\ decision' = [done |-> TRUE, retry_count |-> rc, error |-> e,
                    result |-> CalculateRetryDelay(rc, e)]
    /\ UNCHANGED <<handlerVars, singletonVars, streamVars, scopeVars,
                   min_retry_delay, max_retry_delay, computed, clientVars,
                   closeVars, slotVars, batchVars>>

\* the delays handlers are constructed with, in tenths of a second; they
\* include a cap below the minimum and a zero minimum
MinDelays == {0, 5, DefaultMinRetryDelay, 20}
MaxDelays == {3, 20, DefaultMaxRetryDelay}
JitterValues == 0..JitterMax(DefaultMaxRetryDelay)

InitDelay ==
    /\ InitState
    /\ min_retry_delay \in MinDelays
    /\ max_retry_delay \in MaxDelays

NextDelay ==
    \/ \E rc \in 0..MaxRetries, e \in RetryableErrors, jit \in JitterValues :
          ComputeDelay(rc, e, jit)
    \/ \E rc \in 0..(MaxRetries + 1), e \in ErrorCases : DecideRetry(rc, e)

SpecDelay == InitDelay /\ [][NextDelay]_vars

\* ------------------------------------------- with / async with (scoped use)
\* __enter__ / __aenter__: return self
WithEnter ==
    /\ wpc = "none"
    /\ wpc' = "in"
    /\ UNCHANGED <<handlerVars, singletonVars, streamVars, delayVars, w_path, clientVars, closeVars,
                   slotVars, batchVars>>

\* mutant of ExitCloses: the handler is closed only when the block ended
\* without an exception
ExitClosesOnSuccessOnly(path) == path = "normal"

\* __exit__(exc_type, exc_val, exc_tb) / __aexit__: self.close(), whatever
\* exc_type is
ExitCloses(path) == TRUE

\* the block is left, normally or by an exception, while its thread is not
\* inside a request; __exit__ / __aexit__ is entered
WithExit(path) ==
    /\ wpc = "in"
    /\ pc[1] \in {"idle", "done"}
    /\ w_path' = path
    /\ wpc' = IF ExitCloses(path) THEN "exiting" ELSE "exited"
    /\ UNCHANGED <<handlerVars, singletonVars, streamVars, delayVars, clientVars, closeVars, slotVars,
                   batchVars>>

\* the close() called by __exit__ / __aexit__ is closer "c1"
WithClose ==
    /\ wpc = "exiting"
    /\ \/ cpc["c1"] = "idle" /\ CloseCheck("c1")
       \/ CloseRelease("c1")
       \/ CloseClear("c1")

\* close() has returned or raised: __exit__ / __aexit__ ends the same way
WithDone ==
    /\ wpc = "exiting"
    /\ cpc["c1"] \in {"returned", "raised"}
    /\ wpc' = "exited"
    /\ UNCHANGED <<handlerVars, singletonVars, streamVars, delayVars, w_path, clientVars, closeVars,
                   slotVars, batchVars>>

\* a handler used as a context manager: requests are made inside the block,
\* and close() may also be called from elsewhere (closer "c2") at any time
NextWith ==
    \/ WithEnter
    \/ \E j \in BOOLEAN : wpc = "in" /\ Call(j, FALSE)
    \/ \E o \in Outcomes : wpc = "in" /\ Attempt(1, o)
    \/ wpc = "in" /\ Sleep(1)
    \/ \E path \in {"normal", "exception"} : WithExit(path)
    \/ WithClose
    \/ WithDone
    \/ CloseCheck("c2")
    \/ CloseRelease("c2")
    \/ CloseClear("c2")

SpecWith == Init /\ [][NextWith]_vars

\* ------------------------------------------- the lock-based Singleton
\* everything of the request handler, which the Singleton metaclass and the
\* stream wrappers leave alone
handlerState ==
    <<handlerVars, clientVars, closeVars, slotVars, batchVars, scopeVars,
      delayVars>>

\* constructor calls made per thread
MaxCalls == 2
\* the constructor arguments calls are made with
SArgs == {1, 2}

\* one activation of Singleton.__call__(cls, arg): pc is its position, obj
\* the object whose __init__ it runs, called whether that __init__ has
\* already constructed the other singleton class
Frame(c, a) ==
    [cls |-> c, arg |-> a, pc |-> "check", obj |-> NoInstance, called |-> FALSE]

Top(t) == s_stack[t][Len(s_stack[t])]
SetTop(t, f) == [s_stack EXCEPT ![t] = [@ EXCEPT ![Len(@)] = f]]
Pop(t) == [s_stack EXCEPT ![t] = SubSeq(@, 1, Len(@) - 1)]
At(t, p) == s_stack[t] # <<>> /\ Top(t).pc = p

\* a thread calls cls(arg)
SCall(t, c, a) ==
    /\ s_stack[t] = <<>>
    /\ s_calls[t] < MaxCalls
    /\ s_calls' = [s_calls EXCEPT ![t] = @ + 1]
    /\ s_stack' = [s_stack EXCEPT ![t] = <<Frame(c, a)>>]
    /\ UNCHANGED <<s_instances, s_lock, s_inits, s_stores, s_returned>>
    /\ UNCHANGED <<handlerState, streamVars>>

\* if cls not in cls._instances: (the test made without the lock)
SCheck(t) ==
    /\ At(t, "check")
    /\ s_stack' = SetTop(t, [Top(t) EXCEPT !.pc =
            IF s_instances[Top(t).cls] # NoInstance THEN "return" ELSE "acquire"])
    /\ UNCHANGED <<s_instances, s_lock, s_calls, s_inits, s_stores, s_returned>>
    /\ UNCHANGED <<handlerState, streamVars>>

\* mutant of LockAvailable: the lock is not taken into account (the
\* metaclass of singleton.py, which has no lock)
LockIgnored == TRUE

\* threading.Lock is not reentrant: it can be acquired only while no thread,
\* the acquiring one included, holds it
LockAvailable == s_lock = "free"

\* with Singleton._lock: (entering)
SAcquire(t) ==
    /\ At(t, "acquire")
    /\ LockAvailable
    /\ s_lock' = t
    /\ s_stack' = SetTop(t, [Top(t) EXCEPT !.pc = "check2"])
    /\ UNCHANGED <<s_instances, s_calls, s_inits, s_stores, s_returned>>
    /\ UNCHANGED <<handlerState, streamVars>>

\* if cls not in cls._instances: (under the lock); when the class has no
\* instance, super().__call__ creates the object and starts its __init__
SCheck2(t) ==
    /\ At(t, "check2")
    /\ LET c == Top(t).cls IN
       IF s_instances[c] # NoInstance
         THEN /\ s_stack' = SetTop(t, [Top(t) EXCEPT !.pc = "release"])
              /\ UNCHANGED s_inits
       ELSE /\ s_inits' = [s_inits EXCEPT ![c] = @ + 1]
            /\ s_stack' = SetTop(t, [Top(t) EXCEPT
                   !.pc = "init",
                   !.obj = [cls |-> c, arg |-> Top(t).arg, n |-> s_inits[c] + 1]])
    /\ UNCHANGED <<s_instances, s_lock, s_calls, s_stores, s_returned>>
    /\ UNCHANGED <<handlerState, streamVars>>

\* the running __init__ constructs an instance of the other singleton class
SInitConstructs(t) ==
    /\ At(t, "init")
    /\ Len(s_stack[t]) = 1
    /\ ~Top(t).called
    /\ \E c \in SClasses \ {Top(t).cls} :
          s_stack' = [s_stack EXCEPT ![t] =
              <<[Top(t) EXCEPT !.called = TRUE], Frame(c, Top(t).arg)>>]
    /\ UNCHANGED <<s_instances, s_lock, s_calls, s_inits, s_stores, s_returned>>
    /\ UNCHANGED <<handlerState, streamVars>>

\* __init__ returns: cls._instances[cls] = the new object
SInitReturns(t) ==
    /\ At(t, "init")
    /\ s_instances' = [s_instances EXCEPT ![Top(t).cls] = Top(t).obj]
    /\ s_stores' = [s_stores EXCEPT ![Top(t).cls] = @ + 1]
    /\ s_stack' = SetTop(t, [Top(t) EXCEPT !.pc = "release"])
    /\ UNCHANGED <<s_lock, s_calls, s_inits, s_returned>>
    /\ UNCHANGED <<handlerState, streamVars>>

\* __init__ raises: the with statement releases the lock and the exception
\* leaves __call__; nothing is stored
SInitRaises(t) ==
    /\ At(t, "init")
    /\ s_lock' = "free"
    /\ s_stack' = Pop(t)
    /\ UNCHANGED <<s_instances, s_calls, s_inits, s_stores, s_returned>>
    /\ UNCHANGED <<handlerState, streamVars>>

\* the with statement is left: the lock is released
SRelease(t) ==
    /\ At(t, "release")
    /\ s_lock' = "free"
    /\ s_stack' = SetTop(t, [Top(t) EXCEPT !.pc = "return"])
    /\ UNCHANGED <<s_instances, s_calls, s_inits, s_stores, s_returned>>
    /\ UNCHANGED <<handlerState, streamVars>>

\* return cls._instances[cls]
SReturn(t) ==
    /\ At(t, "return")
    /\ s_returned' = [s_returned EXCEPT ![Top(t).cls] = @ \cup {s_instances[Top(t).cls]}]
    /\ s_stack' = Pop(t)
    /\ UNCHANGED <<s_instances, s_lock, s_calls, s_inits, s_stores>>
    /\ UNCHANGED <<handlerState, streamVars>>

NextSingleton ==
    \/ \E t \in SThreads, c \in SClasses, a \in SArgs : SCall(t, c, a)
    \/ \E t \in SThreads : SCheck(t)
    \/ \E t \in SThreads : SAcquire(t)
    \/ \E t \in SThreads : SCheck2(t)
    \/ \E t \in SThreads : SInitConstructs(t)
    \/ \E t \in SThreads : SInitReturns(t)
    \/ \E t \in SThreads : SInitRaises(t)
    \/ \E t \in SThreads : SRelease(t)
    \/ \E t \in SThreads : SReturn(t)

\* the request handler plays no part: one handler, left untouched
InitSingleton == Init /\ kind = "sync" /\ ~ctor_logger /\ max_retries = 0

SpecSingleton == InitSingleton /\ [][NextSingleton]_vars

\* ------------------------------------- the buffered stream wrappers
\* the longest source stream and the largest buffer_size
MaxSource == 4
MaxBuffer == 3

\* the content of one streamed chunk: a string, here of at most one
\* character (LLM streams contain empty chunks)
Contents == { <<>>, <<"x">> }

\* the messages a source stream of n chunks yields; id is the position
SourceStreams ==
    UNION { [1..n -> Contents] : n \in 0..MaxSource }
SourceItem(src, i) == [id |-> i, content |-> src[i]]

RECURSIVE MergeContent(_)
\* merge_content(*[msg.content ...]): the string contents concatenated
MergeContent(msgs) ==
    IF msgs = <<>> THEN <<>>
    ELSE msgs[1].content \o MergeContent(Tail(msgs))

\* merge_base_messages(messages), called with a non-empty list: the merged
\* content under the id of the first message
MergeBaseMessages(msgs) ==
    [id |-> msgs[1].id, content |-> MergeContent(msgs)]

\* one yield of the wrapper: the merged message, and (history) the buffer
\* it was merged from
Emit(buf) == [merged |-> MergeBaseMessages(buf), of |-> buf]

\* mutant of BufferFull: len(buffer) > self.buffer_size
BufferOverfull(buf) == Len(buf) > buffer_size

\* if len(buffer) >= self.buffer_size:
BufferFull(buf) == Len(buf) >= buffer_size

\* the patched stream / astream is called on a patcher constructed with
\* buffer_size b, over the source src: buffer = []
StreamCall(src, b) ==
    /\ wrapper_pc = "idle"
    /\ buffer_size' = b
    /\ source' = src
    /\ consumed' = 0
    /\ buffer' = <<>>
    /\ emitted' = <<>>
    /\ wrapper_pc' = "iter"
    /\ UNCHANGED <<handlerState, singletonVars>>

\* one step of for item in func(...): the next item is appended and, when
\* the buffer is full, the merged buffer is yielded and the buffer reset;
\* when the source is exhausted the loop ends
StreamNext ==
    /\ wrapper_pc = "iter"
    /\ IF consumed < Len(source)
         THEN LET buf == Append(buffer, SourceItem(source, consumed + 1)) IN
              /\ consumed' = consumed + 1
              /\ IF BufferFull(buf)
                   THEN /\ emitted' = Append(emitted, Emit(buf))
                        /\ buffer' = <<>>
                 ELSE /\ buffer' = buf
                      /\ UNCHANGED emitted
              /\ UNCHANGED wrapper_pc
       ELSE /\ wrapper_pc' = "flush"
            /\ UNCHANGED <<consumed, buffer, emitted>>
    /\ UNCHANGED <<buffer_size, source>>
    /\ UNCHANGED <<handlerState, singletonVars>>

\* if buffer: yield merge_base_messages(buffer); the generator ends
StreamFlush ==
    /\ wrapper_pc = "flush"
    /\ emitted' = IF buffer # <<>> THEN Append(emitted, Emit(buffer)) ELSE emitted
    /\ wrapper_pc' = "done"
    /\ UNCHANGED <<buffer_size, source, consumed, buffer>>
    /\ UNCHANGED <<handlerState, singletonVars>>

NextStream ==
    \/ \E src \in SourceStreams, b \in 1..MaxBuffer : StreamCall(src, b)
    \/ StreamNext
    \/ StreamFlush

\* kind tells stream ("sync") from astream ("async"); the request handler
\* plays no part
InitStream == Init /\ ~ctor_logger /\ max_retries = 0

SpecStream == InitStream /\ [][NextStream]_vars

\* ================================================================= claims
\* a reply that the specification classifies as a retryable failure: an HTTP
\* status of the retryable set {429, 500, 502, 503, 504}, or a transport /
\* timeout error
RetryableReply(o) ==
    \/ o.type = "response" /\ o.status \in RetryableDefault
    \/ o.type = "RequestError"

\* a reply that is a fatal failure: an HTTP error status outside the
\* retryable set, or an exception that is neither a status nor a transport
\* error
FatalReply(o) ==
    \/ o.type = "response" /\ o.status >= 400 /\ o.status \notin RetryableDefault
    \/ o.type = "Exception"

\* a reply that is a success for a request made with is_json j
SuccessReply(o, j) ==
    o.type = "response" /\ o.status < 400 /\ (j => o.json_ok)

\* the exception a failed reply o of attempt n surfaces as
ErrorOf(o, n) ==
    Err(IF o.type = "response" THEN "HTTPStatusError" ELSE o.type, o.status, n)

\* slot s ended, and the last failure it saw came from its last transport
\* send (no attempt was refused before being sent)
EndedOnReply(s) ==
    /\ pc[s] = "done"
    /\ trace[s] # <<>>
    /\ outcome[s].attempt = Len(trace[s])

\* C1: in every reachable state of every request, retry_count is at most
\* max_retries and the number of transport sends made for the request is at
\* most max_retries + 1.
C1_RetryBudget ==
    \A s \in Slots :
        /\ retry_count[s] <= max_retries
        /\ Len(trace[s]) <= max_retries + 1

\* C1 witness: a request that used its whole budget: max_retries >= 1
\* retries and max_retries + 1 sends.
C1_Witness ==
    /\ max_retries >= 1
    /\ pc[1] = "done"
    /\ retry_count[1] = max_retries
    /\ Len(trace[1]) = max_retries + 1

\* C2: a request whose every attempt failed with a retryable failure made
\* exactly max_retries + 1 transport attempts and raised the failure of the
\* final attempt.
C2_ExhaustedRetries ==
    \A s \in Slots :
        (/\ EndedOnReply(s)
         /\ \A i \in 1..Len(trace[s]) : RetryableReply(trace[s][i]))
        => /\ Len(trace[s]) = max_retries + 1
           /\ outcome[s] = Raised(s, ErrorOf(trace[s][Len(trace[s])], Len(trace[s])))

\* C3: a request whose first attempt ended in a fatal failure made exactly
\* one transport attempt, slept never, and raised that failure.
C3_FatalNotRetried ==
    \A s \in Slots :
        (EndedOnReply(s) /\ FatalReply(trace[s][1]))
        => /\ Len(trace[s]) = 1
           /\ sleeps[s] = 0
           /\ outcome[s] = Raised(s, ErrorOf(trace[s][1], 1))

\* C4: a request whose first k <= max_retries attempts fail with a retryable
\* failure and whose next attempt succeeds returns that success after k + 1
\* sends and k retries; in particular it does not end on one of the k
\* retryable failures while retries remain.
C4_RetryThenSuccess ==
    \A s \in Slots :
        EndedOnReply(s) =>
          LET n == Len(trace[s]) IN
          /\ (/\ \A i \in 1..n : RetryableReply(trace[s][i])) => n = max_retries + 1
          /\ (/\ \A i \in 1..(n - 1) : RetryableReply(trace[s][i])
              /\ SuccessReply(trace[s][n], is_json[s]))
             => /\ outcome[s].kind = "return"
                /\ outcome[s].attempt = n
                /\ outcome[s].status = trace[s][n].status
                /\ retry_count[s] = n - 1
                /\ sleeps[s] = n - 1

\* C5: with is_json, a success status whose body is not JSON fails the
\* request with the decode error (ValueError) after exactly one transport
\* attempt and no sleep; without is_json the same response is returned raw.
C5_DecodeErrorNotRetried ==
    \A s \in Slots :
        (/\ pc[s] = "done"
         /\ trace[s] # <<>>
         /\ trace[s][1].type = "response"
         /\ trace[s][1].status < 400
         /\ ~trace[s][1].json_ok)
        => /\ Len(trace[s]) = 1
           /\ sleeps[s] = 0
           /\ IF is_json[s]
                THEN outcome[s] = Raised(s, Err("ValueError", trace[s][1].status, 1))
              ELSE outcome[s] = Returned(s, trace[s][1], 1, "response")

\* C5 witness: a request made with is_json received 200 with a body that is
\* not JSON and has ended.
C5_Witness ==
    /\ pc[1] = "done"
    /\ is_json[1]
    /\ trace[1] = <<Resp(200, FALSE)>>
    /\ outcome[1].exc = "ValueError"

\* an item without 'method' or without 'endpoint'
Malformed(r) == ~r.has_method \/ ~r.has_endpoint

\* C6: when parallel_requests returns, the list has the length of the input
\* and slot i holds the outcome (value or error) of item i's own activation.
C6_IndexAligned ==
    bpc = "returned" =>
        /\ Len(results) = Len(requests)
        /\ \A i \in 1..Len(results) :
              /\ results[i].kind \in {"return", "raise"}
              /\ results[i].item = i
              /\ results[i] = outcome[i]

\* C6 witness: a returned batch of at least two items whose first item
\* failed and whose second item succeeded.
C6_Witness ==
    /\ bpc = "returned"
    /\ Len(requests) >= 2
    /\ results[1].kind = "raise"
    /\ results[2].kind = "return"

\* C7: parallel_requests itself raises only for an invalid concurrency
\* setting (sync, max_workers <= 0), whatever keys the items carry.
C7_NeverRaisesForItems ==
    bpc = "raised" => (kind = "sync" /\ max_workers <= 0)

\* C8: an item without 'method' or 'endpoint' never reaches the transport
\* and does not make the batch raise; when the batch returns, its slot holds
\* an error, and every other item was dispatched and its slot holds the
\* outcome of that item's own last reply.
C8_MalformedItemIsolated ==
    /\ \A i \in Indices : Malformed(requests[i]) => trace[i] = <<>>
    /\ bpc \in {"aborting", "raised"} =>
          \/ kind = "sync" /\ max_workers <= 0
          \/ \E i \in Indices : requests[i].has_is_json
    /\ bpc = "returned" =>
          \A i \in Indices :
             IF Malformed(requests[i])
               THEN /\ results[i].kind = "raise"
                    /\ results[i].item = i
             ELSE /\ pc[i] = "done"
                  /\ sync_client[i] # "unset"
                  /\ results[i] = outcome[i]
                  /\ trace[i] # <<>> =>
                       LET n == Len(trace[i]) IN
                       /\ results[i].attempt = n
                       /\ results[i].status = trace[i][n].status
                       /\ (results[i].kind = "return") = (trace[i][n].status < 400)

\* C8 witness: a returned batch with an item that lacks 'endpoint' and a
\* complete item that was sent and got its response.
C8_Witness ==
    /\ bpc = "returned"
    /\ \E i \in Indices : ~requests[i].has_endpoint /\ results[i].kind = "raise"
    /\ \E i \in Indices :
          /\ ~Malformed(requests[i])
          /\ results[i].kind = "return"
          /\ trace[i] # <<>>

\* C9: close() never raises; a close() that begins after an earlier close()
\* has returned does not release the client again and leaves the handler as
\* it found it: closed, with the client reference cleared; and after any
\* close() has returned the client reference is cleared.
C9_CloseIdempotent ==
    \A c \in Closers :
        /\ cpc[c] # "raised"
        /\ c_after[c] => (client = "None" /\ ~c_released[c])
        /\ cpc[c] = "returned" => client = "None"

\* C9 witness: a second close() has returned after the first released the
\* client once.
C9_Witness ==
    \E c \in Closers :
        /\ cpc[c] = "returned"
        /\ c_after[c]
        /\ releases = 1
        /\ client = "None"

\* C10: a request that begins after close() has returned (self.client is
\* None) sends nothing, sleeps never, is not retried, ends with an error,
\* and the client reference stays cleared.
C10_UseAfterClose ==
    \A s \in Slots :
        (after_close[s] /\ pc[s] # "idle") =>
            /\ client = "None"
            /\ trace[s] = <<>>
            /\ sleeps[s] = 0
            /\ retry_count[s] = 0
            /\ pc[s] \in {"loop", "done"}
            /\ pc[s] = "done" => outcome[s].kind = "raise"

\* C10 witness: a request made after close() has ended with its error.
C10_Witness ==
    /\ after_close[1]
    /\ pc[1] = "done"
    /\ outcome[1].kind = "raise"
    /\ outcome[1].exc = "AttributeError"

\* C11: a handler used as a context manager releases its client on every
\* exit path of the block (normal completion, an exception raised inside the
\* block); after the block the handler is closed: its client reference is
\* cleared and close() of the client has been called.
C11_ScopedRelease ==
    wpc = "exited" => (client = "None" /\ releases >= 1)

\* the block was left by the exception of a failed request, and the close()
\* of __exit__ released the client
C11_Witness ==
    /\ wpc = "exited"
    /\ w_path = "exception"
    /\ outcome[1].kind = "raise"
    /\ c_released["c1"]
    /\ client = "None"

\* C12: every delay _calculate_retry_delay returns was computed for a
\* retry_count in [0, max_retries) and satisfies
\* min(min_retry_delay * 2^retry_count, max_retry_delay) <= delay
\* <= max_retry_delay, whatever jitter in [0, 0.3 * capped base] was drawn.
C12_DelayBounds ==
    computed.done =>
        LET rc == computed.retry_count
            exp == min_retry_delay * Pow2(rc)
            lower == IF exp <= max_retry_delay THEN exp ELSE max_retry_delay
        IN /\ rc < max_retries
           /\ 3 * lower >= 10 * computed.jitter
           /\ lower <= computed.delay
           /\ computed.delay <= max_retry_delay

\* a delay of a second attempt whose base is below the cap and whose jitter
\* takes it above the cap
C12_Witness ==
    /\ computed.done
    /\ computed.retry_count >= 1
    /\ min_retry_delay * Pow2(computed.retry_count) < max_retry_delay
    /\ min_retry_delay * Pow2(computed.retry_count) + computed.jitter
           > max_retry_delay
    /\ computed.delay = max_retry_delay

\* C13: on a handler constructed with a logger, every retry decision (a
\* backoff about to be slept) and every terminal failure of a request that
\* was sent (non-retryable error, exhausted retries, decode error,
\* unexpected error) has put at least one record on that logger.
C13_FailuresLogged ==
    ctor_logger =>
        \A s \in Slots :
            (\/ pc[s] = "sleep"
             \/ EndedOnReply(s) /\ outcome[s].kind = "raise")
                => logs[s] >= 1

\* C14: a handler given a logger behaves as the same handler without one:
\* its retryable status set is {429, 500, 502, 503, 504}, a request that
\* ended on a reply ended with the value or the error of that reply, and it
\* ended on a retryable failure only after max_retries + 1 sends.
C14_LoggerNeutral ==
    /\ retryable_status_codes = CodeSet(RetryableDefault)
    /\ \A s \in Slots :
          EndedOnReply(s) =>
              LET o == trace[s][Len(trace[s])]
                  exc == IF o.type = "response"
                           THEN HandleResponse(o, is_json[s]).exc
                         ELSE o.type
              IN /\ outcome[s].exc = exc
                 /\ RetryableReply(o) => Len(trace[s]) = max_retries + 1

\* slot s made max_retries + 1 sends, every one a retryable failure, and the
\* request raised
Exhausted(s) ==
    /\ EndedOnReply(s)
    /\ outcome[s].kind = "raise"
    /\ Len(trace[s]) = max_retries + 1
    /\ \A i \in 1..Len(trace[s]) : RetryableReply(trace[s][i])

\* C15: the error raised when retries are exhausted is distinguishable from
\* the error of an immediately fatal failure: it is an error of its own kind
\* (one that wraps the last retryable failure and carries the attempt
\* count), never of the class a fatal reply surfaces as.
C15_ExhaustedDistinct ==
    \A s \in Slots :
        Exhausted(s) =>
            \A o \in Outcomes :
                FatalReply(o) => outcome[s].exc # ErrorOf(o, 1).exc

\* the outcome of item i as its own arguments and its own sequence of
\* replies determine it, whatever the scheduling of the batch was
ItemOutcome(i) ==
    LET n == Len(trace[i]) IN
    IF PrepareRaises(requests[i]) THEN Raised(i, Err("AttributeError", 0, 0))
    ELSE IF n = 0 THEN Raised(i, Err(SendRefused(i), 0, 1))
    ELSE LET o == trace[i][n]
             h == IF o.type = "response" THEN HandleResponse(o, is_json[i])
                  ELSE [exc |-> o.type, value |-> "none"]
             e == Err(h.exc, o.status, n)
         IN IF h.exc = "None" THEN Returned(i, o, n, h.value)
            ELSE IF h.exc \in {"ValueError", "Exception"} THEN Raised(i, e)
            ELSE IF CalculateRetryDelay(n - 1, e) = "TypeError"
              THEN Raised(i, Err("TypeError", o.status, n))
            ELSE Raised(i, e)

\* C16: in the sync parallel_requests with max_workers = 1 at most one
\* request is running at any time, so no two sends overlap; and the list a
\* sync batch returns is, for every max_workers >= 1, the list of the
\* outcomes the items' own replies determine, hence the same for
\* max_workers = 1 as for any larger value.
C16_SerialSameResults ==
    kind = "sync" =>
        /\ (bpc # "none" /\ max_workers = 1) => Cardinality(Running) <= 1
        /\ bpc = "returned" =>
               /\ max_workers >= 1
               /\ \A i \in Indices : results[i] = ItemOutcome(i)

\* a sync batch of two items run with max_workers = 1 has returned; both
\* items were sent and one of them was retried
C16_Witness ==
    /\ kind = "sync"
    /\ bpc = "returned"
    /\ max_workers = 1
    /\ Len(requests) = 2
    /\ \A i \in Indices : trace[i] # <<>>
    /\ \E i \in Indices : sleeps[i] >= 1

\* C17: the sync and the async handler are outcome-equivalent: a returned
\* batch holds, for an item that lacks 'method' or 'endpoint', the same
\* kind of error in both (the ValueError of the validation, as the async
\* variant raises it), and for every other item the outcome its own replies
\* determine.
C17_SyncAsyncEquivalent ==
    bpc = "returned" =>
        \A i \in Indices :
            IF Malformed(requests[i])
              THEN results[i].kind = "raise" /\ results[i].exc = "ValueError"
            ELSE results[i] = ItemOutcome(i)

\* C18: the handler has exactly one client, the one its constructor created:
\* self.client is that client or None, every request holds that client or
\* None, and every request that sent anything sent it through that client.
C18_OneClient ==
    /\ client \in {"client", "None"}
    /\ releases = 0 => client = "client"
    /\ \A s \in Slots :
          /\ sync_client[s] \in {"unset", "client", "None"}
          /\ trace[s] # <<>> => sync_client[s] = "client"

\* a request was sent twice (once retried) through the client of the
\* constructor, and the handler was closed afterwards
C18_Witness ==
    /\ Len(trace[1]) >= 2
    /\ sync_client[1] = "client"
    /\ pc[1] = "done"
    /\ client = "None"

\* C19: under every interleaving of close() calls, the client's release
\* (client.close() / aclose()) is performed at most once, exactly once as
\* soon as a close() has returned, and no close() raises.
C19_ReleasedExactlyOnce ==
    /\ releases <= 1
    /\ \A c \in Closers :
          /\ cpc[c] # "raised"
          /\ cpc[c] = "returned" => releases = 1

\* C20: a close() whose release raised does not raise itself; when it has
\* returned the client reference is cleared, and a close() that begins
\* afterwards does not call the release again.
C20_ReleaseErrorSwallowed ==
    \A d \in Closers :
        c_failed[d] =>
            /\ cpc[d] \in {"clear", "returned"}
            /\ cpc[d] = "returned" =>
                   /\ client = "None"
                   /\ \A c \in Closers \ {d} : c_after[c] => ~c_released[c]

\* the release of one close() raised, that close() returned, and a later
\* close() returned without releasing again
C20_Witness ==
    \E d \in Closers, c \in Closers :
        /\ c # d
        /\ c_failed[d]
        /\ c_released[d]
        /\ cpc[d] = "returned"
        /\ c_after[c]
        /\ cpc[c] = "returned"
        /\ releases = 1
        /\ client = "None"

\* C21: a response whose body is malformed JSON, received by a request made
\* with is_json true, is the last reply of that request whatever its HTTP
\* status is: the request is not retried after it and ends with the decode
\* error (ValueError).
C21_MalformedBodyNeverRetried ==
    \A s \in Slots :
        \A i \in 1..Len(trace[s]) :
            (is_json[s] /\ trace[s][i].type = "response" /\ ~trace[s][i].json_ok)
                => /\ i = Len(trace[s])
                   /\ pc[s] = "done"
                   /\ outcome[s].exc = "ValueError"

\* C22 (as stated): under every interleaving of constructor calls from
\* several threads, __init__ of a class is run at most once and every call
\* returns the same instance.
C22_InitAtMostOnce ==
    \A c \in SClasses :
        /\ s_inits[c] <= 1
        /\ Cardinality(s_returned[c]) <= 1

\* C22 (amended): under every interleaving, a class gets an instance at
\* most once, no two __init__ of it run at the same time, every call that
\* returns returns that one instance, whose argument is the one of the call
\* that created it; __init__ is run again only after every earlier run of it
\* raised.
C22_OneInstance ==
    \A c \in SClasses :
        /\ s_stores[c] <= 1
        /\ s_inits[c] > 1 => s_stores[c] <= s_inits[c] - 1
        /\ s_stores[c] = 1 => s_instances[c] # NoInstance
        /\ s_returned[c] \subseteq {s_instances[c]} \ {NoInstance}
        /\ Cardinality({t \in SThreads :
               \E i \in 1..Len(s_stack[t]) :
                  s_stack[t][i].cls = c /\ s_stack[t][i].pc = "init"}) <= 1

\* both threads have made constructor calls and all of them are over; one
\* class was initialised once and the calls for it returned its instance
C22_Witness ==
    \E c \in SClasses :
        /\ s_returned[c] = {s_instances[c]}
        /\ s_instances[c] # NoInstance
        /\ s_inits[c] = 1
        /\ \A t \in SThreads : s_calls[t] >= 1 /\ s_stack[t] = <<>>
        /\ s_inits[CHOOSE d \in SClasses : d # c] = 0

\* C23: _calculate_retry_delay returns a delay exactly when the error is
\* retryable (an HTTP status error whose status is in
\* retryable_status_codes, or a transport error) and retry_count is below
\* max_retries; in every other case it returns None.
C23_DelayIffRetryable ==
    decision.done =>
        LET e == decision.error
            retryable ==
                \/ e.exc = "HTTPStatusError" /\ e.status \in retryable_status_codes.codes
                \/ e.exc = "RequestError"
        IN /\ decision.result \in {"delay", "None"}
           /\ (decision.result = "delay") <=>
                  (retryable /\ decision.retry_count < max_retries)

\* C24: within one request the events are ordered send, classify, (sleep,
\* send, classify)*: an attempt starts only when every earlier attempt has
\* been followed by exactly one backoff sleep, a sleep happens only after a
\* classified failed attempt, and a request that ended slept once less than
\* it made attempts (no sleep before the first or after the last attempt).
C24_AttemptsAndSleepsAlternate ==
    \A s \in Slots :
        /\ sleeps[s] = retry_count[s]
        /\ pc[s] = "loop" => Len(trace[s]) = sleeps[s]
        /\ pc[s] = "sleep" =>
               /\ Len(trace[s]) = sleeps[s] + 1
               /\ last_error[s].attempt = Len(trace[s])
        /\ (pc[s] = "done" /\ outcome[s].attempt >= 1) =>
               /\ sleeps[s] = outcome[s].attempt - 1
               /\ Len(trace[s]) \in {sleeps[s], sleeps[s] + 1}

\* a request that ended with a value on its third attempt, after two sleeps
C24_Witness ==
    /\ pc[1] = "done"
    /\ outcome[1].kind = "return"
    /\ Len(trace[1]) = 3
    /\ sleeps[1] = 2

\* C25: retry state is private to each request: with several requests in
\* progress on one handler, retry_count of a request is the number of its
\* own failed attempts that were retried, it never exceeds max_retries, and
\* a request ends with a retryable failure only after max_retries + 1 sends
\* of its own, whatever the other requests did.
C25_RetryStatePrivate ==
    \A s \in Slots :
        /\ retry_count[s] <= max_retries
        /\ retry_count[s] = sleeps[s]
        /\ pc[s] = "loop" => retry_count[s] = Len(trace[s])
        /\ pc[s] = "sleep" => retry_count[s] = Len(trace[s]) - 1
        /\ (/\ EndedOnReply(s)
            /\ RetryableReply(trace[s][Len(trace[s])])
            /\ outcome[s].exc \in {"HTTPStatusError", "RequestError"})
              => /\ Len(trace[s]) = max_retries + 1
                 /\ retry_count[s] = max_retries

\* one item of a batch has used up its retries while another item of the
\* same batch is in the backoff sleep before its retry
C25_Witness ==
    /\ bpc # "none"
    /\ max_retries >= 1
    /\ Exhausted(1)
    /\ outcome[1].exc = "HTTPStatusError"
    /\ pc[2] = "sleep"
    /\ retry_count[2] = 0

\* C26: a batch called with a valid concurrency setting ends only when
\* every one of its items has run to its own result: no item is skipped or
\* left unstarted because of another item, and the list returned holds the
\* final value or error of every item.
C26_EveryItemResolves ==
    (bpc \in {"returned", "raised"} /\ ~(kind = "sync" /\ max_workers <= 0)) =>
        /\ bpc = "returned"
        /\ \A i \in Indices :
              /\ pc[i] = "done"
              /\ outcome[i].kind \in {"return", "raise"}
              /\ results[i] = outcome[i]

\* C27: for every max_retries >= 0 a request whose arguments could be
\* prepared enters the loop body at least once, the loop condition
\* retry_count <= max_retries holds every time it is evaluated, and the
\* request ends by a return or a raise of the loop body, never by the
\* safeguard raise after the loop (the RequestError that belongs to no
\* attempt).
C27_SafeguardUnreachable ==
    \A s \in Slots :
        /\ pc[s] = "loop" => retry_count[s] <= max_retries
        /\ (pc[s] = "done" /\ ~PrepareRaises(args[s])) =>
               /\ outcome[s].attempt >= 1
               /\ outcome[s].attempt <= max_retries + 1
               /\ ~(/\ outcome[s].exc = "RequestError"
                    /\ outcome[s].attempt = Len(trace[s]) + 1)

\* a handler with max_retries = 0: its request failed with a transport error
\* on its only attempt and raised it from inside the loop
C27_Witness ==
    /\ max_retries = 0
    /\ pc[1] = "done"
    /\ Len(trace[1]) = 1
    /\ outcome[1].exc = "RequestError"
    /\ outcome[1].attempt = 1

\* C28: creating an instance through the lock-based Singleton always
\* terminates: no constructor call is ever blocked acquiring
\* Singleton._lock while its own thread holds that lock (which would block
\* it for ever), also when an __init__ constructs another singleton class.
C28_NoSelfDeadlock ==
    \A t \in SThreads : ~(At(t, "acquire") /\ s_lock = t)

\* C29: whenever min_retry_delay * 2^retry_count >= max_retry_delay, the
\* delay computed for a retryable error is exactly max_retry_delay, whatever
\* jitter was drawn.
C29_CappedDelayConstant ==
    (computed.done
        /\ min_retry_delay * Pow2(computed.retry_count) >= max_retry_delay)
            => computed.delay = max_retry_delay

\* a delay whose exponential base is above the cap, computed with a
\* positive jitter
C29_Witness ==
    /\ computed.done
    /\ min_retry_delay * Pow2(computed.retry_count) > max_retry_delay
    /\ computed.jitter > 0
    /\ computed.delay = max_retry_delay

RECURSIVE BatchesFlat(_)
\* the source items of a sequence of emitted batches, in emission order
BatchesFlat(es) ==
    IF es = <<>> THEN <<>> ELSE es[1].of \o BatchesFlat(Tail(es))

\* C30: for a finite source and buffer_size >= 1, the emitted batches
\* partition the source items in order: the batches emitted so far followed
\* by the buffer are exactly the items taken from the source; no batch is
\* empty; every batch that is not the one emitted after the end of the
\* source merges exactly buffer_size items; and when the wrapper has ended
\* every source item is in a batch, the last of which holds 1..buffer_size
\* items.  Every emitted message is the merge of its batch.
C30_BatchesPartitionSource ==
    wrapper_pc # "idle" =>
        /\ wrapper_pc # "done" =>
              BatchesFlat(emitted) \o buffer
                 = [i \in 1..consumed |-> SourceItem(source, i)]
        /\ Len(buffer) < buffer_size
        /\ \A k \in 1..Len(emitted) :
              /\ emitted[k].of # <<>>
              /\ Len(emitted[k].of) <= buffer_size
              /\ (k < Len(emitted) \/ wrapper_pc # "done")
                    => Len(emitted[k].of) = buffer_size
              /\ emitted[k].merged.id = emitted[k].of[1].id
              /\ emitted[k].merged.content = MergeContent(emitted[k].of)
        /\ wrapper_pc = "done" =>
              /\ consumed = Len(source)
              /\ BatchesFlat(emitted) = [i \in 1..Len(source) |-> SourceItem(source, i)]

\* a stream of four chunks buffered by three has ended: a full batch and a
\* last batch of one item
C30_Witness ==
    /\ wrapper_pc = "done"
    /\ Len(source) = 4
    /\ buffer_size = 3
    /\ Len(emitted) = 2
    /\ Len(emitted[1].of) = 3
    /\ Len(emitted[2].of) = 1

====
